---- MODULE Spec2Model ----
(***************************************************************************)
(* Model of the browsertime command layer:                                 *)
(*   - class Wait        (src/lib/chrome/settings/traceCategories.js)      *)
(*   - class SingleClick (src/unnamed/part_000)                            *)
(* Both run on the single-threaded JavaScript event loop.  One action of   *)
(* the model is one run-to-completion step of that loop: the synchronous   *)
(* part of a call, or the continuation that runs when a promise the call   *)
(* awaits settles.  The selenium driver, the page, the timers and the      *)
(* Completion Predicate are the environment: they decide when and how the  *)
(* promises settle.                                                        *)
(***************************************************************************)
EXTENDS Integers, Sequences, FiniteSets, TLC

VARIABLES
  now,      \* the wall clock, in ms
  page,     \* the page: is the element locatable, what the expression gives
  call,     \* the Wait call in flight or last settled
  dw,       \* the driver.wait(...) started by that call
  log,      \* the diagnostic records emitted by that call, in order
  actions,  \* SingleClick: this.actions, the queued clicks of the instance
  clicks,   \* SingleClick: the click calls, by slot
  ninv,     \* SingleClick: number of click calls invoked so far
  refs,     \* this.browser and this.pageCompleteCheck of the two objects
  dom,      \* what a click finds on the page: its targets, does it settle
  seen      \* the calls settled so far on the page as it is: arguments, outcome

vars == <<now, page, call, dw, log, actions, clicks, ninv, refs, dom, seen>>
waitVars == <<now, page, call, dw, log>>
clickVars == <<actions, clicks, ninv, dom, seen>>

----------------------------------------------------------------------------
(* Program constants *)

\* const time = maxTime || 6000;
DefaultMaxTime == 6000
\* driver.wait(condition, timeout, message, pollTimeout = 200)
PollTimeout == 200
\* setTimeout: a delay outside 1..2^31-1 is replaced by 1
TIMEOUT_MAX == 2147483647

(* Bounds of the model *)

\* click calls invoked in one behaviour
MaxInvocations == 2
\* click calls made one after the other on an unchanged page
MaxRepeats == 3

\* The instants the clock visits, in whole milliseconds as Date.now() gives
\* them.  A jump over several due times is a late timer, which the event loop
\* allows; 199 is the instant at which a 200 ms timer armed at 0 can already
\* fire.
Instants ==
  {0, 199, 200, 400, 600, DefaultMaxTime, DefaultMaxTime + PollTimeout, TIMEOUT_MAX}
LastInstant == TIMEOUT_MAX

\* Locator values and expressions handed to the calls.
Locators == {"submit", ".missing"}

\* A maxTime argument: omitted (undefined) or a number.
Omitted == [given |-> FALSE, v |-> 0]
Num(n) == [given |-> TRUE, v |-> n]
MaxTimeArgs == {Omitted} \cup {Num(n) : n \in {-1, 0, 200, 500}}

\* A byTime argument: the number v, or TIMEOUT_MAX + v when over is TRUE.
Ms(n) == [over |-> FALSE, v |-> n]
MsOver(n) == [over |-> TRUE, v |-> n]
MsArgs == {Ms(n) : n \in {-1, 0, 1, 200, DefaultMaxTime, TIMEOUT_MAX}} \cup {MsOver(1)}

LocatorOps == {"byId", "byXpath", "bySelector"}
PollOps == LocatorOps \cup {"byCondition"}
WaitOps == PollOps \cup {"byTime", "byPageToComplete"}

----------------------------------------------------------------------------
(* Values *)

NoError == [kind |-> "none", text |-> "", value |-> "", time |-> 0]
\* new Error(`<text> <value> ... <time> ms`)
TypedError(text, value, time) ==
  [kind |-> "typed", text |-> text, value |-> value, time |-> time]
\* an error of the driver or of the Completion Predicate, as it was raised
RawError(text) == [kind |-> "raw", text |-> text, value |-> "", time |-> 0]

LogRecord(sev, text, value, time) ==
  [sev |-> sev, text |-> text, value |-> value, time |-> time]

IdleCall ==
  [op |-> "none", x |-> "", maxTime |-> Omitted, ms |-> Ms(0), pc |-> "idle",
   start |-> 0, time |-> 0, after |-> 0, settledAt |-> 0, error |-> NoError,
   pred |-> "none"]

IdleWait ==
  [called |-> 0, timeout |-> 0, st |-> "none", slept |-> 0, hung |-> FALSE]

----------------------------------------------------------------------------
(* Wait: pure parts *)

\* maxTime || 6000 : undefined and 0 are falsy.
MutEffectiveTimePassThrough(maxTime) ==
  IF maxTime.given THEN maxTime.v ELSE DefaultMaxTime
MutEffectiveTimePositiveOnly(maxTime) ==
  IF maxTime.given /\ maxTime.v > 0 THEN maxTime.v ELSE DefaultMaxTime
EffectiveTime(maxTime) ==
  IF maxTime.given /\ maxTime.v # 0 THEN maxTime.v ELSE DefaultMaxTime

\* The message of the error each operation throws from its catch block.
ErrorText(op) ==
  CASE op = "byId" -> "Element by id %s was not located in %s ms"
    [] op = "byXpath" -> "Element by xpath %s was not located in %s ms"
    [] op = "bySelector" -> "Element by selector %s was not located in %s ms"
    [] op = "byCondition" -> "Condition %s was not met in %s ms"

\* log.error(...) of each catch block.
LogText(op) ==
  CASE op = "byId" -> "Element by id %s was not located in %s ms"
    [] op = "byXpath" -> "Element by xpath %s was not located in %s ms"
    [] op = "bySelector" -> "Element by selector %s was not located in %s ms"
    [] op = "byCondition" -> "Condition was not met"

\* catch (error) { log.error(...); log.verbose(error); throw new Error(...) }
\* The two records logged, and how the call ends.
CatchLog(op, x, time, cause) ==
  <<LogRecord("error", LogText(op), x, time), LogRecord("verbose", cause, "", 0)>>

MutWaitCatchSwallows(op, x, time) == [pc |-> "resolved", error |-> NoError]
WaitCatch(op, x, time) ==
  [pc |-> "rejected", error |-> TypedError(ErrorText(op), x, time)]

\* setTimeout(res, ms): the delay actually armed.
SetTimeoutAfter(ms) ==
  IF ~ms.over /\ ms.v >= 1 /\ ms.v <= TIMEOUT_MAX THEN ms.v ELSE 1

\* A timer armed for `after` ms can fire once elapsed whole milliseconds have
\* passed.  The event loop compares against its own clock, which is truncated
\* to whole milliseconds, so the callback runs up to just under 1 ms before
\* the delay is over: a 200 ms timer is seen to fire 199 ms after it was armed.
MutTimerDueAtOnce(after, elapsed) == TRUE
TimerDue(after, elapsed) == elapsed >= after - 1

\* At least ms milliseconds have passed since the call was invoked.
MsElapsed(ms, start, t) == ~ms.over /\ t - start >= ms.v

\* What one evaluation of the wait condition gives on the page as it is.
\* elementLocated(By...) gives the element or nothing; executeScript gives the
\* expression's value or fails when the expression throws.  Any driver round
\* trip can also fail (the session is gone, the locator is invalid).
EvalResults(op) ==
  IF op = "byCondition"
    THEN {page.cond}
    ELSE {IF page.located THEN "truthy" ELSE "falsy", "throws"}

----------------------------------------------------------------------------
(* SingleClick: values and pure parts *)

\* The click calls that can be in flight together on the one instance.
Calls == {1, 2}

ClickOps == {"byXpath", "bySelector", "atCursor"}

\* The options argument.  type is what typeof gives ("undefined" when the
\* argument is omitted); hasWait is whether the object has a key 'wait'; wait
\* is that key's value, written as the JavaScript literal.
OptOmitted == [type |-> "undefined", hasWait |-> FALSE, wait |-> "undefined"]
OptWaitTrue == [type |-> "object", hasWait |-> TRUE, wait |-> "true"]
OptWaitFalse == [type |-> "object", hasWait |-> TRUE, wait |-> "false"]
OptWaitOne == [type |-> "object", hasWait |-> TRUE, wait |-> "1"]
OptOtherKey == [type |-> "object", hasWait |-> FALSE, wait |-> "undefined"]
OptString == [type |-> "string", hasWait |-> FALSE, wait |-> "undefined"]
OptionsArgs == {OptOmitted, OptWaitTrue, OptWaitFalse, OptWaitOne, OptOtherKey, OptString}

\* if (options && 'wait' in options && options.wait === true)
\*   "wait":   the condition holds, extraWait is called;
\*   "done":   the condition is false, the call returns;
\*   "throws": 'wait' in options throws a TypeError (options is a primitive).
MutAfterPerformNeverWaits(options) ==
  IF options.type = "undefined" THEN "done"
  ELSE IF options.type # "object" THEN "throws"
  ELSE "done"
MutAfterPerformRejectsUnknownKeys(options) ==
  IF options.type = "undefined" THEN "done"
  ELSE IF options.type # "object" THEN "throws"
  ELSE IF ~options.hasWait THEN "throws"
  ELSE IF options.wait = "true" THEN "wait"
  ELSE "done"
MutAfterPerformTruthyWait(options) ==
  IF options.type = "undefined" THEN "done"
  ELSE IF options.type # "object" THEN "throws"
  ELSE IF options.hasWait /\ options.wait \in {"true", "1"} THEN "wait"
  ELSE "done"
AfterPerform(options) ==
  IF options.type = "undefined" THEN "done"
  ELSE IF options.type # "object" THEN "throws"
  ELSE IF options.hasWait /\ options.wait = "true" THEN "wait"
  ELSE "done"

\* The message of the error each click operation throws from its catch block.
MutClickErrorTextCopied(op) ==
  CASE op = "byXpath" -> "Could not single click on element with xpath %s"
    [] op = "bySelector" -> "Could not single click on element with xpath %s"
    [] op = "atCursor" -> "Could not perform single click"
ClickErrorText(op) ==
  CASE op = "byXpath" -> "Could not single click on element with xpath %s"
    [] op = "bySelector" -> "Could not single click on element with selector %s"
    [] op = "atCursor" -> "Could not perform single click"

\* catch (error) { log.error(...); log.verbose(error); throw new Error(...) }
ClickCatchLog(op, loc, cause) ==
  <<LogRecord("error", ClickErrorText(op), loc, 0), LogRecord("verbose", cause, "", 0)>>

\* One click queued on this.actions: by which call, on which target.
QueuedClick(id, target) == [by |-> id, target |-> target]

IdleClick ==
  [id |-> 0, op |-> "none", loc |-> "", options |-> OptOmitted, pc |-> "idle",
   payload |-> <<>>, performed |-> FALSE, pred |-> "none", error |-> NoError,
   log |-> <<>>, before |-> {}, overlap |-> {},
   nfind |-> 0, nperform |-> 0, npred |-> 0]

----------------------------------------------------------------------------
(* The initial state: both objects constructed, no call made yet. *)

Pages == [located : BOOLEAN, cond : {"falsy", "truthy", "throws"}]
\* Before anything is loaded: no element to locate, the expression is falsy.
BlankPage == [located |-> FALSE, cond |-> "falsy"]

\* constructor(browser, pageCompleteCheck): the two references kept.
Constructed(browser, pageCompleteCheck) ==
  [browser |-> browser, pageCompleteCheck |-> pageCompleteCheck]

\* What a click call meets on the page: each locator matches no element, an
\* element the pointer cannot reach, or an element it can click; the
\* Completion Predicate's future resolves or rejects.  A click at the cursor
\* can always be dispatched.
Doms == [targets : [Locators -> {"absent", "blocked", "clickable"}],
         completes : BOOLEAN]
BlankDom == [targets |-> [l \in Locators |-> "absent"], completes |-> TRUE]

Init ==
  /\ refs = [wait |-> Constructed("browser", "pageCompleteCheck"),
             click |-> Constructed("browser", "pageCompleteCheck")]
  /\ dom = BlankDom
  /\ seen = {}
  /\ now = 0
  /\ page = BlankPage
  /\ call = IdleCall
  /\ dw = IdleWait
  /\ log = <<>>
  /\ actions = <<>>
  /\ clicks = [c \in Calls |-> IdleClick]
  /\ ninv = 0

Settled(c) == c.pc \in {"resolved", "rejected"}
CanInvoke == call.pc = "idle" \/ Settled(call)

----------------------------------------------------------------------------
(* Wait.byId / byXpath / bySelector / byCondition *)

\* The synchronous part of the call: compute time, call driver.wait.
\* driver.wait throws a TypeError at once for a negative timeout, which the
\* catch block turns into the typed error; otherwise it starts the first
\* evaluation of the condition.  A call is made only while the clock has
\* room for its timeout and one more poll, so that the last instant never
\* cuts a wait short.
InvokePoll(op, x, maxTime) ==
  LET time == EffectiveTime(maxTime)
      caught == WaitCatch(op, x, time)
  IN
  /\ CanInvoke
  /\ time < 0 \/ time + PollTimeout <= LastInstant - now
  /\ call' = [IdleCall EXCEPT !.op = op, !.x = x, !.maxTime = maxTime,
                !.start = now, !.time = time, !.settledAt = now,
                !.pc = IF time < 0 THEN caught.pc ELSE "polling",
                !.error = IF time < 0 THEN caught.error ELSE NoError]
  /\ dw' = [IdleWait EXCEPT !.called = 1, !.timeout = time, !.slept = now,
              !.st = IF time < 0 THEN "threw" ELSE "evaluating"]
  /\ log' = IF time < 0 THEN CatchLog(op, x, time, "TypeError") ELSE <<>>
  /\ UNCHANGED <<now, page, refs>>

\* One evaluation of the condition returns.  driver.wait then resolves on a
\* truthy value, rejects when the evaluation failed, rejects with a
\* TimeoutError when timeout ms have passed, and otherwise sleeps
\* PollTimeout ms before the next evaluation.  The await in the call then
\* continues: return on success, the catch block on rejection.
TimedOut(timeout, elapsed) == timeout # 0 /\ elapsed >= timeout

EvalReturn(r) ==
  LET elapsed == now - call.start
      expired == TimedOut(dw.timeout, elapsed)
      cause == IF r = "throws" THEN "DriverError" ELSE "TimeoutError"
      caught == WaitCatch(call.op, call.x, call.time)
  IN
  /\ call.pc = "polling"
  /\ dw.st = "evaluating"
  /\ ~dw.hung
  /\ r \in EvalResults(call.op)
  /\ IF r = "truthy"
       THEN /\ dw' = [dw EXCEPT !.st = "resolved"]
            /\ call' = [call EXCEPT !.pc = "resolved", !.settledAt = now]
            /\ log' = log
       ELSE IF r = "throws" \/ expired
         THEN /\ dw' = [dw EXCEPT !.st = "rejected"]
              /\ call' = [call EXCEPT !.pc = caught.pc, !.settledAt = now,
                            !.error = caught.error]
              /\ log' = log \o CatchLog(call.op, call.x, call.time, cause)
         ELSE /\ dw' = [dw EXCEPT !.st = "sleeping", !.slept = now]
              /\ call' = call
              /\ log' = log
  /\ UNCHANGED <<now, page, refs>>

\* setTimeout(pollCondition, pollTimeout) fires: the next evaluation starts.
PollTimer ==
  /\ call.pc = "polling"
  /\ dw.st = "sleeping"
  /\ TimerDue(PollTimeout, now - dw.slept)
  /\ dw' = [dw EXCEPT !.st = "evaluating"]
  /\ UNCHANGED <<now, page, call, log, refs>>

\* The script of byCondition never returns (it blocks in the page).
EvalHang ==
  /\ call.pc = "polling"
  /\ call.op = "byCondition"
  /\ dw.st = "evaluating"
  /\ ~dw.hung
  /\ dw' = [dw EXCEPT !.hung = TRUE]
  /\ UNCHANGED <<now, page, call, log, refs>>

----------------------------------------------------------------------------
(* Wait.byTime *)

\* delay(ms): new Promise(res => setTimeout(res, ms))
InvokeTime(ms) ==
  /\ CanInvoke
  /\ SetTimeoutAfter(ms) <= LastInstant - now
  /\ call' = [IdleCall EXCEPT !.op = "byTime", !.ms = ms, !.start = now,
                !.after = SetTimeoutAfter(ms), !.pc = "timing"]
  /\ dw' = IdleWait
  /\ log' = <<>>
  /\ UNCHANGED <<now, page, refs>>

\* The timer fires, up to just under 1 ms before it is due or any time
\* later, and res() resolves the call.
TimerFire ==
  /\ call.pc = "timing"
  /\ TimerDue(call.after, now - call.start)
  /\ call' = [call EXCEPT !.pc = "resolved", !.settledAt = now]
  /\ UNCHANGED <<now, page, dw, log, refs>>

----------------------------------------------------------------------------
(* Wait.byPageToComplete *)

\* An async method that returns a promise settles as that promise does:
\* resolved when it resolves, rejected with its error when it rejects.
MutAdoptSwallowsRejection(ok) == [pc |-> "resolved", error |-> NoError]
Adopt(ok) ==
  [pc |-> IF ok THEN "resolved" ELSE "rejected",
   error |-> IF ok THEN NoError ELSE RawError("PredicateError")]

\* A call that consumes the predicate: this.pageCompleteCheck is gone after it.
MutInvokePageToCompleteDropsCheck ==
  /\ CanInvoke
  /\ call' = [IdleCall EXCEPT !.op = "byPageToComplete", !.start = now,
                !.pc = "settling", !.pred = "pending"]
  /\ dw' = IdleWait
  /\ log' = <<>>
  /\ refs' = [refs EXCEPT !.wait.pageCompleteCheck = "undefined"]
  /\ UNCHANGED <<now, page>>

\* return this.browser.extraWait(this.pageCompleteCheck)
\* pred is the state of the promise extraWait returned.
InvokePageToComplete ==
  /\ CanInvoke
  /\ call' = [IdleCall EXCEPT !.op = "byPageToComplete", !.start = now,
                !.pc = "settling", !.pred = "pending"]
  /\ dw' = IdleWait
  /\ log' = <<>>
  /\ UNCHANGED <<now, page, refs>>

\* The Completion Predicate's future settles; the call settles the same way.
PredicateSettle(ok) ==
  /\ call.pc = "settling"
  /\ call' = [call EXCEPT !.pc = Adopt(ok).pc, !.settledAt = now,
                !.error = Adopt(ok).error,
                !.pred = IF ok THEN "resolved" ELSE "rejected"]
  /\ UNCHANGED <<now, page, dw, log, refs>>

----------------------------------------------------------------------------
(* Environment of the Wait calls *)

Advance ==
  /\ \E t \in Instants : t > now /\ now' = t
  /\ UNCHANGED <<page, call, dw, log, refs>>

PageChange ==
  /\ \E p \in Pages : p # page /\ page' = p
  /\ UNCHANGED <<now, call, dw, log, refs>>

InvokeWait ==
  \/ \E op \in PollOps, x \in Locators, m \in MaxTimeArgs : InvokePoll(op, x, m)
  \/ \E ms \in MsArgs : InvokeTime(ms)
  \/ InvokePageToComplete

EvalReturns == \E r \in {"truthy", "falsy", "throws"} : EvalReturn(r)
PredicateSettles == \E ok \in BOOLEAN : PredicateSettle(ok)

Next ==
  \/ InvokeWait /\ UNCHANGED clickVars
  \/ EvalReturns /\ UNCHANGED clickVars
  \/ PollTimer /\ UNCHANGED clickVars
  \/ EvalHang /\ UNCHANGED clickVars
  \/ TimerFire /\ UNCHANGED clickVars
  \/ PredicateSettles /\ UNCHANGED clickVars
  \/ Advance /\ UNCHANGED clickVars
  \/ PageChange /\ UNCHANGED clickVars

Spec == Init /\ [][Next]_vars

\* Wait.byTime alone, with its timer and the clock.
NextTime ==
  \/ (\E ms \in MsArgs : InvokeTime(ms)) /\ UNCHANGED clickVars
  \/ TimerFire /\ UNCHANGED clickVars
  \/ Advance /\ UNCHANGED clickVars

FairSpecTime ==
  /\ Init
  /\ [][NextTime]_vars
  /\ WF_vars(Advance /\ UNCHANGED clickVars)
  /\ WF_vars(TimerFire /\ UNCHANGED clickVars)

----------------------------------------------------------------------------
(* SingleClick.byXpath / bySelector / atCursor *)

InFlight(c) == clicks[c].pc \in {"finding", "performing", "settling"}
\* A new call takes the first slot that is free.
ClickCanInvoke(c) ==
  /\ ~InFlight(c)
  /\ \A d \in Calls : d < c => InFlight(d)
  /\ ninv < MaxInvocations

\* The calls that were in flight when c was invoked.
Earlier(c) == {d \in Calls \ {c} : InFlight(d)}

\* A call settles: it is no longer "in flight before" any other call.
Forget(cs, c) == [d \in Calls |-> [cs[d] EXCEPT !.before = @ \ {c}]]

\* this.actions.click(target).perform(): the click is appended to the
\* instance's sequence and the whole sequence is sent as one dispatch.
\* perform() sends a copy of the sequence and leaves the sequence as it is.
Dispatch(c, target) ==
  LET queued == Append(actions, QueuedClick(clicks[c].id, target)) IN
  /\ actions' = queued
  /\ clicks' = [clicks EXCEPT ![c].pc = "performing", ![c].payload = queued,
                  ![c].overlap = clicks[c].before, ![c].nperform = @ + 1]

\* A catch block that dispatches again instead of giving up.
MutClickFailRetries(c, cause, performed) ==
  clicks' = [clicks EXCEPT ![c].pc = "performing", ![c].nperform = @ + 1]

\* The catch block: two log records, then the typed error.
ClickFail(c, cause, performed) ==
  clicks' = Forget([clicks EXCEPT ![c].pc = "rejected", ![c].performed = performed,
                      ![c].error = TypedError(ClickErrorText(clicks[c].op), clicks[c].loc, 0),
                      ![c].log = @ \o ClickCatchLog(clicks[c].op, clicks[c].loc, cause)], c)

\* byXpath / bySelector: the synchronous part starts findElement.
StartClickBy(c, op, loc, options) ==
  /\ clicks' = [clicks EXCEPT ![c] = [IdleClick EXCEPT !.id = ninv + 1, !.op = op, !.loc = loc,
                  !.options = options, !.pc = "finding", !.before = Earlier(c),
                  !.nfind = 1]]
  /\ ninv' = ninv + 1
  /\ UNCHANGED <<actions, refs>>

InvokeClickBy(c, op, loc, options) ==
  ClickCanInvoke(c) /\ StartClickBy(c, op, loc, options)

\* atCursor: the synchronous part queues the click and starts perform().
StartAtCursor(c, options) ==
  LET queued == Append(actions, QueuedClick(ninv + 1, "cursor")) IN
  /\ actions' = queued
  /\ clicks' = [clicks EXCEPT ![c] = [IdleClick EXCEPT !.id = ninv + 1, !.op = "atCursor",
                  !.options = options, !.pc = "performing", !.payload = queued,
                  !.before = Earlier(c), !.overlap = Earlier(c), !.nperform = 1]]
  /\ ninv' = ninv + 1
  /\ UNCHANGED refs

InvokeAtCursor(c, options) ==
  ClickCanInvoke(c) /\ StartAtCursor(c, options)

\* findElement settles: with the element, and the click is dispatched; or
\* with NoSuchElementError, and the catch block runs.
FindReturn(c, found) ==
  /\ clicks[c].pc = "finding"
  /\ IF found
       THEN Dispatch(c, clicks[c].loc)
       ELSE ClickFail(c, "NoSuchElementError", FALSE) /\ UNCHANGED actions
  /\ UNCHANGED <<ninv, refs>>

\* perform() settles.  On success the options decide: call extraWait and
\* return its promise, return, or throw into the catch block.
PerformReturn(c, ok) ==
  LET next == AfterPerform(clicks[c].options) IN
  /\ clicks[c].pc = "performing"
  /\ IF ~ok
       THEN ClickFail(c, "DispatchError", FALSE)
       ELSE IF next = "throws"
         THEN ClickFail(c, "TypeError", TRUE)
         ELSE IF next = "wait"
           THEN clicks' = [clicks EXCEPT ![c].performed = TRUE,
                             ![c].pc = "settling", ![c].pred = "pending",
                             ![c].npred = @ + 1]
           ELSE clicks' = Forget([clicks EXCEPT ![c].performed = TRUE,
                                    ![c].pc = "resolved"], c)
  /\ UNCHANGED <<actions, ninv, refs>>

\* The promise of extraWait settles.  The call returned that promise without
\* awaiting it, so the call settles as the promise does and the catch block
\* does not run.
PredicateReturn(c, ok) ==
  /\ clicks[c].pc = "settling"
  /\ clicks' = Forget([clicks EXCEPT
                  ![c].pc = IF ok THEN "resolved" ELSE "rejected",
                  ![c].pred = IF ok THEN "resolved" ELSE "rejected",
                  ![c].error = IF ok THEN NoError ELSE RawError("PredicateError")], c)
  /\ UNCHANGED <<actions, ninv, refs>>

InvokeClick ==
  \E c \in Calls, options \in OptionsArgs :
    \/ \E op \in {"byXpath", "bySelector"}, loc \in Locators :
         InvokeClickBy(c, op, loc, options)
    \/ InvokeAtCursor(c, options)

FindReturns == \E c \in Calls, found \in BOOLEAN : FindReturn(c, found)
PerformReturns == \E c \in Calls, ok \in BOOLEAN : PerformReturn(c, ok)
PredicateReturns == \E c \in Calls, ok \in BOOLEAN : PredicateReturn(c, ok)

NextClick ==
  \/ InvokeClick /\ UNCHANGED <<waitVars, dom, seen>>
  \/ FindReturns /\ UNCHANGED <<waitVars, dom, seen>>
  \/ PerformReturns /\ UNCHANGED <<waitVars, dom, seen>>
  \/ PredicateReturns /\ UNCHANGED <<waitVars, dom, seen>>

SpecClick == Init /\ [][NextClick]_vars

\* The event loop runs every callback that is ready and the clock moves on.
\* Nothing forces the page to change, a script to hang or a caller to call.
FairSpec ==
  /\ Spec
  /\ WF_vars(Advance /\ UNCHANGED clickVars)
  /\ WF_vars(TimerFire /\ UNCHANGED clickVars)
  /\ WF_vars(PollTimer /\ UNCHANGED clickVars)
  /\ WF_vars(EvalReturns /\ UNCHANGED clickVars)
  /\ WF_vars(PredicateSettles /\ UNCHANGED clickVars)

----------------------------------------------------------------------------
(* Click calls made one after the other on a page that stays as it is *)

\* The options of the repeated calls.
RepeatOptions == {OptOmitted, OptWaitTrue}

\* The page is set up before the first call and not touched afterwards.
DomChange ==
  /\ ninv = 0
  /\ \E d \in Doms : d # dom /\ dom' = d
  /\ UNCHANGED <<waitVars, actions, clicks, ninv, seen, refs>>

\* findElement on the page: the locator matches an element or it does not.
Found(c) == dom.targets[clicks[c].loc] # "absent"

\* perform() on the page: the sequence sent is carried out click by click,
\* and it fails when one of its clicks is on an element that cannot be reached.
Performs(c) ==
  \A i \in 1..Len(clicks[c].payload) :
    \/ clicks[c].payload[i].target = "cursor"
    \/ dom.targets[clicks[c].payload[i].target] = "clickable"

\* What the caller observes of a settled call: its arguments and how it ended.
Outcome(k) == [op |-> k.op, loc |-> k.loc, options |-> k.options, pc |-> k.pc]

Observe(c) ==
  IF clicks'[c].pc \in {"resolved", "rejected"}
    THEN seen' = seen \cup {Outcome(clicks'[c])}
    ELSE UNCHANGED seen

\* The caller awaits each call before making the next one.
RepeatInvoke ==
  /\ ~InFlight(1)
  /\ ninv < MaxRepeats
  /\ \E options \in RepeatOptions :
       \/ \E op \in {"byXpath", "bySelector"}, loc \in Locators :
            StartClickBy(1, op, loc, options)
       \/ StartAtCursor(1, options)
  /\ UNCHANGED <<waitVars, dom, seen>>

RepeatFind == FindReturn(1, Found(1)) /\ Observe(1) /\ UNCHANGED <<waitVars, dom>>
RepeatPerform ==
  PerformReturn(1, Performs(1)) /\ Observe(1) /\ UNCHANGED <<waitVars, dom>>
RepeatPredicate ==
  PredicateReturn(1, dom.completes) /\ Observe(1) /\ UNCHANGED <<waitVars, dom>>

NextRepeat ==
  \/ DomChange
  \/ RepeatInvoke
  \/ RepeatFind
  \/ RepeatPerform
  \/ RepeatPredicate

SpecRepeat == Init /\ [][NextRepeat]_vars

----------------------------------------------------------------------------
(* A test that uses both objects: click calls, then Wait calls *)

\* The Wait calls are made after one click at the cursor has resolved, so
\* that a click is queued on the SingleClick object while they run; the click
\* calls are made before any Wait call.
WaitTurn ==
  /\ ninv = 1
  /\ clicks[1].op = "atCursor"
  /\ clicks[1].options = OptOmitted
  /\ clicks[1].pc = "resolved"
ClickTurn == call.pc = "idle" /\ now = 0 /\ page = BlankPage

NextEither ==
  \/ WaitTurn /\ InvokeWait /\ UNCHANGED clickVars
  \/ WaitTurn /\ EvalReturns /\ UNCHANGED clickVars
  \/ WaitTurn /\ PollTimer /\ UNCHANGED clickVars
  \/ WaitTurn /\ EvalHang /\ UNCHANGED clickVars
  \/ WaitTurn /\ TimerFire /\ UNCHANGED clickVars
  \/ WaitTurn /\ PredicateSettles /\ UNCHANGED clickVars
  \/ WaitTurn /\ Advance /\ UNCHANGED clickVars
  \/ WaitTurn /\ PageChange /\ UNCHANGED clickVars
  \/ ClickTurn /\ InvokeClick /\ UNCHANGED <<waitVars, dom, seen>>
  \/ ClickTurn /\ FindReturns /\ UNCHANGED <<waitVars, dom, seen>>
  \/ ClickTurn /\ PerformReturns /\ UNCHANGED <<waitVars, dom, seen>>
  \/ ClickTurn /\ PredicateReturns /\ UNCHANGED <<waitVars, dom, seen>>

SpecEither == Init /\ [][NextEither]_vars

----------------------------------------------------------------------------
(* Properties of the Wait operations *)

\* The raw cause the catch block logged at verbose severity, if it ran.
Cause == IF Len(log) = 2 THEN log[2].text ELSE "none"

\* The timeout the caller asked for: t, and 6000 when t is omitted.
RequestedTime == IF call.maxTime.given THEN call.maxTime.v ELSE 6000
\* The timeout in force: t, and 6000 when t is omitted or 0.
TimeInForce ==
  IF call.maxTime.given /\ call.maxTime.v # 0 THEN call.maxTime.v ELSE 6000

LocatorCase ==
  /\ call.op \in LocatorOps
  /\ ~call.maxTime.given \/ call.maxTime.v >= 0

LocatedTexts ==
  {"Element by id %s was not located in %s ms",
   "Element by xpath %s was not located in %s ms",
   "Element by selector %s was not located in %s ms"}

\* C1 as stated: a byId/byXpath/bySelector call with timeout t >= 0 (t = 0
\* included) or no timeout resolves only with an element located within t ms,
\* and otherwise rejects with a timeout error that records t (6000 when t is
\* omitted).
C1_Original ==
  (LocatorCase /\ Settled(call)) =>
    /\ call.pc = "resolved" => call.settledAt - call.start <= RequestedTime
    /\ call.pc = "rejected" =>
         call.error.kind = "typed" /\ call.error.time = RequestedTime

\* C1 amended: a byId/byXpath/bySelector call with timeout t >= 0 or no
\* timeout resolves if and only if a poll of driver.wait locates the element,
\* each poll after the first being scheduled less than T ms after the call,
\* where T is t, and 6000 when t is omitted or 0; otherwise it rejects with
\* the typed error naming the locator value and recording T, and a rejection
\* on timeout comes no earlier than T ms after the call.
C1_Amended ==
  LocatorCase =>
    /\ call.pc = "resolved" <=> dw.st = "resolved"
    /\ call.pc = "resolved" => dw.slept - call.start < TimeInForce
    /\ call.pc = "rejected" =>
         /\ call.error.kind = "typed"
         /\ call.error.text \in LocatedTexts
         /\ call.error.value = call.x
         /\ call.error.time = TimeInForce
    /\ (call.pc = "rejected" /\ Cause = "TimeoutError") =>
         call.settledAt - call.start >= TimeInForce

\* byId(x, 0) timed out: after 6000 ms, with an error that records 6000.
C1_Witness ==
  /\ call.op = "byId"
  /\ call.maxTime = Num(0)
  /\ call.pc = "rejected"
  /\ Cause = "TimeoutError"
  /\ call.settledAt - call.start >= 6000
  /\ call.error.time = 6000

\* C7 as stated: byCondition(expr, t) resolves if and only if an evaluation
\* of expr is truthy, and then at once; an expression that stays falsy and an
\* expression that throws both give the rejection 'Condition <expr> was not
\* met in <t> ms', delivered only once t ms have elapsed.  (Stated for t > 0
\* or omitted.)
C7_Original ==
  (call.op = "byCondition" /\ (~call.maxTime.given \/ call.maxTime.v > 0)) =>
    /\ call.pc = "resolved" <=> dw.st = "resolved"
    /\ call.pc = "rejected" =>
         /\ call.error = TypedError("Condition %s was not met in %s ms", call.x, RequestedTime)
         /\ call.settledAt - call.start >= RequestedTime

\* C7 amended: byCondition(expr, t) resolves if and only if an evaluation of
\* expr is truthy, and then at once.  Every rejection is the error 'Condition
\* <expr> was not met in <T> ms', T being t, and 6000 when t is omitted or 0.
\* An expression that stays falsy is rejected only once T ms have elapsed; an
\* expression whose evaluation throws is rejected as soon as that evaluation
\* returns, and a negative t is rejected at once, both before T ms elapse.
C7_Amended ==
  call.op = "byCondition" =>
    /\ call.pc = "resolved" <=> dw.st = "resolved"
    /\ call.pc = "rejected" =>
         call.error = TypedError("Condition %s was not met in %s ms", call.x, TimeInForce)
    /\ (call.pc = "rejected" /\ Cause = "TimeoutError") =>
         call.settledAt - call.start >= TimeInForce
    /\ (call.pc = "rejected" /\ call.settledAt - call.start < TimeInForce) =>
         Cause \in {"DriverError", "TypeError"}

\* byCondition(expr, 500) with a throwing expr: rejected at once, with the
\* message citing 500 ms.
C7_Witness ==
  /\ call.op = "byCondition"
  /\ call.maxTime = Num(500)
  /\ call.pc = "rejected"
  /\ Cause = "DriverError"
  /\ call.settledAt = call.start
  /\ call.error.time = 500

\* C8 as stated: whenever the caller gives a timeout, zero and negative
\* included, driver.wait gets exactly that value; 6000 only when omitted.
C8_Original ==
  (call.op \in PollOps /\ dw.called = 1) => dw.timeout = RequestedTime

\* C8 amended: whenever the caller gives a timeout other than 0, negative
\* included, driver.wait gets exactly that value; it gets 6000 when the
\* timeout is omitted or 0.  driver.wait is called once per call.
C8_Amended ==
  (call.op \in PollOps) =>
    /\ dw.called = 1
    /\ dw.timeout = IF call.maxTime.given /\ call.maxTime.v # 0
                      THEN call.maxTime.v ELSE 6000

\* byCondition(expr, 0) is polling with the driver's timeout at 6000.
C8_Witness ==
  /\ call.op = "byCondition"
  /\ call.maxTime = Num(0)
  /\ call.pc = "polling"
  /\ dw.called = 1
  /\ dw.timeout = 6000

\* C9 as stated: byTime(ms), for every ms >= 0, never rejects and resolves no
\* earlier than ms milliseconds after the call.
C9_Original ==
  (call.op = "byTime" /\ (call.ms.over \/ call.ms.v >= 0)) =>
    /\ call.pc # "rejected"
    /\ call.pc = "resolved" => MsElapsed(call.ms, call.start, call.settledAt)

C9_Safe ==
  (call.op = "byTime" /\ ~call.ms.over /\ call.ms.v >= 0) =>
    /\ call.pc # "rejected"
    /\ call.pc = "resolved" => call.settledAt - call.start >= call.ms.v - 1

\* C9 amended: byTime(ms), for every ms with 0 <= ms <= 2^31 - 1, never
\* rejects and resolves no earlier than ms - 1 milliseconds after the call
\* (the timer can fire just under 1 ms early); with the timer and the clock
\* fair, every byTime call eventually resolves.
C9_Amended ==
  /\ []C9_Safe
  /\ (call.op = "byTime" /\ call.pc = "timing") ~> (call.op = "byTime" /\ call.pc = "resolved")

\* byTime(200) resolved 199 ms after the call, as early as the timer allows.
C9_Witness ==
  /\ call.op = "byTime"
  /\ call.ms = Ms(200)
  /\ call.pc = "resolved"
  /\ call.settledAt - call.start = 199

\* C10 as stated: every byId/byXpath/bySelector/byCondition call eventually
\* settles, whatever the page does, a script evaluation that never returns
\* included.
C10_Bounded ==
  (call.op \in PollOps /\ call.pc = "polling") ~> (call.pc # "polling")

\* What does hold: a polling call settles unless an evaluation never returns.
C10_SettlesUnlessHung ==
  (call.op \in PollOps /\ call.pc = "polling") ~> (call.pc # "polling" \/ dw.hung)

----------------------------------------------------------------------------
(* Properties of the SingleClick operations *)

ByLocator(c) == clicks[c].op \in {"byXpath", "bySelector"}

\* C2: byXpath/bySelector with {wait: true} resolves only after the dispatch
\* has completed and the Completion Predicate's future has resolved, the
\* predicate being started only after the dispatch completed; with
\* {wait: false} or no options the call resolves when the dispatch completes
\* and the predicate is not started.
C2_WaitOption ==
  \A c \in Calls : ByLocator(c) =>
    /\ clicks[c].pred # "none" => clicks[c].performed
    /\ (clicks[c].options = OptWaitTrue /\ clicks[c].pc = "resolved") =>
         clicks[c].performed /\ clicks[c].pred = "resolved"
    /\ (clicks[c].options = OptWaitTrue /\ clicks[c].performed) =>
         clicks[c].pred # "none"
    /\ clicks[c].options \in {OptWaitFalse, OptOmitted} =>
         /\ clicks[c].pred = "none"
         /\ clicks[c].performed <=> clicks[c].pc = "resolved"

\* bySelector(loc, {wait: true}) resolved, after the dispatch and the
\* predicate both completed.
C2_Witness ==
  \E c \in Calls :
    /\ clicks[c].op = "bySelector"
    /\ clicks[c].options = OptWaitTrue
    /\ clicks[c].pc = "resolved"
    /\ clicks[c].performed
    /\ clicks[c].pred = "resolved"

\* C3: the dispatch of a click call never begins while a call started
\* earlier on the same instance has not completed.
C3_NoInterleaving ==
  \A c \in Calls : clicks[c].overlap = {}

\* C4: every rejection of a click call is the operation's typed error, for
\* every options value, and every rejection of a Wait call is a typed error.
C4_TypedRejections ==
  /\ \A c \in Calls : clicks[c].pc = "rejected" =>
       /\ clicks[c].error.kind = "typed"
       /\ clicks[c].error.text = ClickErrorText(clicks[c].op)
  /\ call.pc = "rejected" => call.error.kind = "typed"

\* C5: a call that rejects has emitted exactly two records, one at error
\* severity and then one at verbose severity; a call that resolves has
\* emitted none.
C5_TwoRecords ==
  /\ \A c \in Calls :
       /\ clicks[c].pc = "rejected" =>
            /\ Len(clicks[c].log) = 2
            /\ clicks[c].log[1].sev = "error"
            /\ clicks[c].log[2].sev = "verbose"
       /\ clicks[c].pc = "resolved" => clicks[c].log = <<>>
  /\ call.pc = "rejected" =>
       Len(log) = 2 /\ log[1].sev = "error" /\ log[2].sev = "verbose"
  /\ call.pc = "resolved" => log = <<>>

\* C6: when findElement fails or perform fails in byXpath/bySelector, with
\* any options, the call rejects with the typed error naming the locator
\* kind and the locator value, and the Completion Predicate is not invoked.
C6_LookupOrDispatchFails ==
  \A c \in Calls :
    (ByLocator(c) /\ clicks[c].pc = "rejected" /\ ~clicks[c].performed) =>
      /\ clicks[c].error.kind = "typed"
      /\ clicks[c].error.text =
           IF clicks[c].op = "byXpath"
             THEN "Could not single click on element with xpath %s"
             ELSE "Could not single click on element with selector %s"
      /\ clicks[c].error.value = clicks[c].loc
      /\ clicks[c].pred = "none"
      /\ Len(clicks[c].log) = 2
      /\ clicks[c].log[2].text \in {"NoSuchElementError", "DispatchError"}

\* bySelector(".missing", {wait: true}) where the element is not found.
C6_Witness ==
  \E c \in Calls :
    /\ clicks[c].op = "bySelector"
    /\ clicks[c].loc = ".missing"
    /\ clicks[c].options = OptWaitTrue
    /\ clicks[c].pc = "rejected"
    /\ clicks[c].payload = <<>>
    /\ clicks[c].error.value = ".missing"
    /\ clicks[c].pred = "none"

----------------------------------------------------------------------------
(* Properties settled with the later claims *)

\* C11: byPageToComplete has no timeout of its own and settles exactly as the
\* Completion Predicate's future does: it is resolved exactly when the future
\* is resolved, rejected exactly when the future is rejected, and pending for
\* as long as the future is pending, however much time passes.
C11_SettlesAsPredicate ==
  call.op = "byPageToComplete" =>
    /\ call.pc = "resolved" <=> call.pred = "resolved"
    /\ call.pc = "rejected" <=> call.pred = "rejected"
    /\ call.pc = "settling" <=> call.pred = "pending"
    /\ dw.called = 0

\* byPageToComplete is still pending at the last instant of the clock, long
\* after the 6000 ms of the other waits.
C11_Witness ==
  /\ call.op = "byPageToComplete"
  /\ call.start = 0
  /\ now = LastInstant
  /\ call.pc = "settling"
  /\ call.pred = "pending"

\* The options the data model allows: omitted, or a record.
RecordOptions == {OptOmitted, OptWaitTrue, OptWaitFalse, OptWaitOne, OptOtherKey}

\* C12 as stated: a click call has no timeout of its own.  While its element
\* lookup or its dispatch has not settled the call is pending with nothing
\* logged and no error, whatever else happens on the instance; and the typed
\* error comes only from a lookup or a dispatch that settled as rejected.
C12_Original ==
  \A c \in Calls :
    /\ clicks[c].pc \in {"finding", "performing"} =>
         clicks[c].error = NoError /\ clicks[c].log = <<>>
    /\ clicks[c].error.kind = "typed" =>
         /\ clicks[c].pc = "rejected"
         /\ Len(clicks[c].log) = 2
         /\ clicks[c].log[2].text \in {"NoSuchElementError", "DispatchError"}
         /\ ~clicks[c].performed

\* C12 amended: a click call has no timeout of its own: while its element
\* lookup or its dispatch has not settled the call is pending with nothing
\* logged and no error.  The typed error comes from a lookup or a dispatch
\* that settled as rejected, and from one more source: when options is a
\* truthy value that is not an object, `'wait' in options` throws a TypeError
\* after the dispatch has succeeded and the catch block turns it into the
\* typed error.  With options omitted or an object it comes only from a
\* rejected lookup or dispatch.
C12_Amended ==
  \A c \in Calls :
    /\ clicks[c].pc \in {"finding", "performing"} =>
         clicks[c].error = NoError /\ clicks[c].log = <<>>
    /\ clicks[c].error.kind = "typed" =>
         /\ clicks[c].pc = "rejected"
         /\ Len(clicks[c].log) = 2
         /\ \/ /\ clicks[c].log[2].text \in {"NoSuchElementError", "DispatchError"}
               /\ ~clicks[c].performed
            \/ /\ clicks[c].log[2].text = "TypeError"
               /\ clicks[c].performed
               /\ clicks[c].options \notin RecordOptions
    /\ (clicks[c].options \notin RecordOptions /\ clicks[c].performed) =>
         /\ clicks[c].pc = "rejected"
         /\ clicks[c].error.kind = "typed"

\* A call whose dispatch has not settled is still pending after a later call
\* on the same instance, made with a string as options, has clicked and then
\* failed with the typed error.
C12_Witness ==
  \E c, d \in Calls :
    /\ clicks[c].pc = "performing"
    /\ clicks[c].id < clicks[d].id
    /\ clicks[d].options = OptString
    /\ clicks[d].performed
    /\ clicks[d].pc = "rejected"
    /\ clicks[d].error.kind = "typed"
    /\ clicks[d].log[2].text = "TypeError"

\* C14: the dispatch of every click call carries exactly one click, the one
\* that call queued, and no click queued by an earlier call.  (Stated for the
\* dispatches that began with no earlier call in flight.)
C14_OneClickPerDispatch ==
  \A c \in Calls :
    (clicks[c].nperform > 0 /\ clicks[c].overlap = {}) =>
      /\ Len(clicks[c].payload) = 1
      /\ clicks[c].payload[1].by = clicks[c].id

\* C16: the Completion Predicate is invoked exactly when the dispatch has
\* succeeded and options has a key 'wait' that is strictly true; with options
\* omitted, wait false, wait 1 or only other keys it is not invoked and the
\* call ends as a call without options does: resolved when the dispatch
\* succeeds, the typed error when the lookup or the dispatch fails.
C16_OnlyStrictTrueWaits ==
  \A c \in Calls :
    /\ clicks[c].npred > 0 <=>
         /\ clicks[c].performed
         /\ clicks[c].options.type = "object"
         /\ clicks[c].options.hasWait
         /\ clicks[c].options.wait = "true"
    /\ clicks[c].npred > 0 <=> clicks[c].pred # "none"
    /\ clicks[c].options \in {OptOmitted, OptWaitFalse, OptWaitOne, OptOtherKey} =>
         /\ clicks[c].pc = "resolved" <=> clicks[c].performed
         /\ clicks[c].pc = "rejected" =>
              clicks[c].error =
                TypedError(ClickErrorText(clicks[c].op), clicks[c].loc, 0)

\* atCursor({wait: 1}) resolved without the predicate being invoked.
C16_Witness ==
  \E c \in Calls :
    /\ clicks[c].op = "atCursor"
    /\ clicks[c].options = OptWaitOne
    /\ clicks[c].pc = "resolved"
    /\ clicks[c].performed
    /\ clicks[c].npred = 0

\* C13: on a page that stays as it is, two calls on the same instance with the
\* same operation and the same arguments end the same way, both resolved or
\* both rejected, whatever calls were completed in between.
C13_SameOutcome ==
  \A a, b \in seen :
    (a.op = b.op /\ a.loc = b.loc /\ a.options = b.options) => a.pc = b.pc

\* C15: no automatic retry.  A byId, byXpath, bySelector or byCondition call
\* starts driver.wait exactly once and ends as that one driver.wait ends; a
\* click call makes at most one lookup, one dispatch and one invocation of the
\* Completion Predicate, and after a step has failed no later step is made:
\* no dispatch after a failed lookup, no predicate after a failed dispatch.
C15_NoRetry ==
  /\ call.op \in PollOps =>
       /\ dw.called = 1
       /\ dw.st \in {"rejected", "threw"} => call.pc = "rejected"
       /\ dw.st = "resolved" => call.pc = "resolved"
       /\ Settled(call) => dw.st \in {"resolved", "rejected", "threw"}
  /\ \A c \in Calls :
       /\ clicks[c].nfind <= 1
       /\ clicks[c].nperform <= 1
       /\ clicks[c].npred <= 1
       /\ (clicks[c].pc = "rejected" /\ ~clicks[c].performed) => clicks[c].npred = 0
       /\ (Len(clicks[c].log) = 2 /\ clicks[c].log[2].text = "NoSuchElementError") =>
            clicks[c].nperform = 0 /\ clicks[c].pc = "rejected"
       /\ (Len(clicks[c].log) = 2 /\ clicks[c].log[2].text = "DispatchError") =>
            clicks[c].nperform = 1 /\ clicks[c].pc = "rejected"

\* byXpath found the element, its one dispatch failed and the call rejected.
C15_Witness ==
  \E c \in Calls :
    /\ clicks[c].op = "byXpath"
    /\ clicks[c].pc = "rejected"
    /\ clicks[c].nfind = 1
    /\ clicks[c].nperform = 1
    /\ clicks[c].npred = 0
    /\ clicks[c].log[2].text = "DispatchError"

\* C17: no step of a Wait or SingleClick operation changes this.browser or
\* this.pageCompleteCheck of either object, and a step of a Wait operation
\* leaves the queued action sequence of the SingleClick object as it is.
C17_Frame ==
  [][/\ refs' = refs
     /\ (call' # call \/ dw' # dw \/ log' # log) => actions' = actions]_vars

\* A Wait call has rejected while a click is queued on the SingleClick object,
\* and both objects still hold the references they were constructed with.
C17_Witness ==
  /\ call.op \in PollOps
  /\ call.pc = "rejected"
  /\ Len(actions) = 1
  /\ refs.wait = Constructed("browser", "pageCompleteCheck")
  /\ refs.click = Constructed("browser", "pageCompleteCheck")

====
